---- MODULE Spec2Model ----
(***************************************************************************)
(* Model of GameplaySessionManager (src/src/lib.rs): the manager's one     *)
(* optional GameSession, join_session, and the per-tick physics_process.   *)
(* The renet client and transport are an external library; their calls are *)
(* modelled by the contract the manager relies on (queues, status, Result) *)
(* with every outcome the library can report left to the environment.      *)
(***************************************************************************)
EXTENDS Integers, Sequences, FiniteSets, TLC

VARIABLES
    game_session,   \* GameplaySessionManager.game_session : Option<GameSession>
    emitted,        \* lost_connection signals emitted so far, in order
    joins,          \* number of join_session calls that stored a session
    last            \* what the last handler invocation did (observation only)

vars == <<game_session, emitted, joins, last>>

----------------------------------------------------------------------------
\* Bounds of the model.
MaxJoins == 2          \* successful join_session calls explored
MaxArrive == 2         \* messages one transport.update can feed the client
IdBits == 3            \* width of the client id integers (64 in the source)
HandshakeTimeout == 3  \* library's handshake timeout (in time units)

\* delta: f64 handed in by the host, in time units; the negative value stands
\* for every f64 that no Duration can hold (negative, NaN, infinite).
Deltas == {-1, 0, 1}

\* Payloads of inbound messages (opaque byte sequences).
Msgs == {"m1", "m2"}

\* client_id: i64 handed to join_session, at the model's width.
ClientIds == {-1, 1}

\* address: GString handed to join_session.
Addresses == {"[::1]:5000", "localhost:5000"}

RECURSIVE SeqsUpTo(_, _)
SeqsUpTo(S, n) ==
    IF n = 0 THEN {<<>>}
    ELSE LET shorter == SeqsUpTo(S, n - 1)
         IN  shorter \cup {Append(q, x) : q \in {r \in shorter : Len(r) = n - 1}, x \in S}

----------------------------------------------------------------------------
\* Result<(), NetcodeTransportError>
Ok == "Ok"
TransportErrors == {"Netcode", "IO"}
Results == {Ok} \cup TransportErrors

is_err(result) == result # Ok

\* NetcodeTransportError's Display (error.to_string()).
to_string(error) ==
    CASE error = "Netcode" -> "client is disconnected"
      [] error = "IO"      -> "io error"

\* Option<GameSession>
None == [some |-> FALSE]
Some(v) == [some |-> TRUE, value |-> v]

\* A call that either yields a value or ends the handler with a panic
\* (an unwrap of Err, or a panic inside the callee).
Panic == [panic |-> TRUE]
Value(v) == [panic |-> FALSE, value |-> v]

----------------------------------------------------------------------------
\* join_session

\* address.to_string().parse::<SocketAddr>().unwrap(): an IP literal with a
\* port parses; a host name does not (no DNS resolution).
parse_unwrap(address) ==
    CASE address = "[::1]:5000" -> Value([ip |-> "::1", port |-> 5000])
      [] OTHER                  -> Panic

\* client_id as u64: a wrapping cast, never a failure.
as_u64(client_id) == client_id % (2 ^ IdBits)

\* RenetClient::new(ConnectionConfig::default()): connecting, empty channels.
RenetClient_new ==
    [status |-> "connecting", inbound |-> <<>>, outbound |-> <<>>]

\* ClientAuthentication::Unsecure{..} handed to NetcodeClientTransport::new.
NetcodeClientTransport_new(server_addr, client_id) ==
    [server_addr |-> server_addr,
     client_id   |-> as_u64(client_id),
     protocol_id |-> 0,
     handshake   |-> 0]

\* The fallible system call of one join_session that fails, if any:
\* UdpSocket::bind, SystemTime::duration_since or NetcodeClientTransport::new.
JoinEnvs == {"none", "bind", "duration_since", "NetcodeClientTransport::new"}

\* Variant: join_session clears the slot first (self.game_session = None), so
\* a failed setup loses the session that was held.
setup_failed_clearing(gs, at) == [gs |-> None, outcome |-> "panic", cause |-> at]

\* An unwrap() of lines 119-137 panics: join_session unwinds before line 139,
\* so self.game_session is what it was.
setup_failed(gs, at) == [gs |-> gs, outcome |-> "panic", cause |-> at]

\* Variant: the new session is built around the old one's error slot.
store_session_keeping_error(gs, id, client, transport) ==
    Some([id              |-> id,
          client          |-> client,
          transport       |-> transport,
          transport_error |-> IF gs.some THEN gs.value.transport_error ELSE Ok])

\* Lines 139-143: self.game_session = Some(GameSession {..}), the old value
\* dropped.  id is the model's name for the new session object.
store_session(gs, id, client, transport) ==
    Some([id              |-> id,
          client          |-> client,
          transport       |-> transport,
          transport_error |-> Ok])

\* The body of join_session: the Option<GameSession> it leaves and how it ended.
join_session_do(gs, id, address, client_id, env) ==
    LET client      == RenetClient_new
        server_addr == parse_unwrap(address)
    IN  IF server_addr.panic THEN setup_failed(gs, "parse")
        ELSE IF env = "bind" THEN setup_failed(gs, "bind")
        ELSE IF env = "duration_since" THEN setup_failed(gs, "duration_since")
        ELSE IF env = "NetcodeClientTransport::new"
             THEN setup_failed(gs, "NetcodeClientTransport::new")
        ELSE [gs |-> store_session(gs, id, client,
                         NetcodeClientTransport_new(server_addr.value, client_id)),
              outcome |-> "ok",
              cause   |-> ""]

\* What join_session found in self.game_session (observation only).
prior_of(gs) ==
    IF gs.some
    THEN [some     |-> TRUE,
          error    |-> is_err(gs.value.transport_error),
          inbound  |-> Len(gs.value.client.inbound),
          outbound |-> Len(gs.value.client.outbound)]
    ELSE [some |-> FALSE, error |-> FALSE, inbound |-> 0, outbound |-> 0]

join_session(address, client_id, env) ==
    \E r \in {join_session_do(game_session, joins + 1, address, client_id, env)} :
        /\ r.outcome = "ok" => joins < MaxJoins
        /\ game_session' = r.gs
        /\ joins' = IF r.outcome = "ok" THEN joins + 1 ELSE joins
        /\ emitted' = emitted
        /\ last' = [op |-> "join_session", address |-> address,
                    client_id |-> client_id, env |-> env, outcome |-> r.outcome,
                    cause |-> r.cause, prior |-> prior_of(game_session),
                    calls |-> <<>>, signals |-> <<>>]

----------------------------------------------------------------------------
\* physics_process (the tick)

transport_has_error(gs) ==
    IF gs.some THEN is_err(gs.value.transport_error) ELSE FALSE

\* Variant: the early return of lines 57-59 is missing.
already_failed_unchecked(gs) == FALSE

\* Lines 57-59: a session that already carries an error is left alone.
already_failed(gs) == transport_has_error(gs)

\* Variant: the message is not taken from the stored error.
transport_error_message_blank(gs) == ""

\* Only a message if there is an error inside the session, else the empty string.
transport_error_message(gs) ==
    IF gs.some /\ is_err(gs.value.transport_error)
    THEN to_string(gs.value.transport_error)
    ELSE ""

\* Duration::from_secs_f64(delta): panics on a value no Duration can hold.
from_secs_f64(delta) == IF delta < 0 THEN Panic ELSE Value(delta)

\* What one transport.update(deltadur, client) can do to the session: the
\* Result it returns, the client's status afterwards and the messages it fed
\* into the reliable-ordered channel.  A handshake that has lasted longer
\* than the library's timeout is reported as a terminal error.
Arrivals == SeqsUpTo(Msgs, MaxArrive)

UpdateOutcomes(session, deltadur) ==
    LET status == session.client.status
    IN  CASE status = "connecting" ->
               IF session.transport.handshake + deltadur > HandshakeTimeout
               THEN {[result |-> "Netcode", status |-> "disconnected", arrivals |-> <<>>]}
               ELSE {[result |-> r, status |-> "connecting", arrivals |-> <<>>] :
                        r \in {Ok, "IO"}}
                    \cup {[result |-> Ok, status |-> "connected", arrivals |-> a] :
                             a \in Arrivals}
          [] status = "connected" ->
               {[result |-> Ok, status |-> st, arrivals |-> a] :
                   st \in {"connected", "disconnected"}, a \in Arrivals}
               \cup {[result |-> "IO", status |-> "connected", arrivals |-> a] :
                        a \in Arrivals}
               \cup {[result |-> "Netcode", status |-> "disconnected", arrivals |-> a] :
                        a \in Arrivals}
          [] status = "disconnected" ->
               {[result |-> r, status |-> "disconnected", arrivals |-> <<>>] :
                   r \in TransportErrors}

\* The same, facing a peer that never authenticates.
SilentPeerOutcomes(session, deltadur) ==
    {o \in UpdateOutcomes(session, deltadur) : o.status # "connected"}

\* The outcomes of transport.update against a peer of the given kind.
PeerOutcomes(peer, session, deltadur) ==
    IF peer = "silent" THEN SilentPeerOutcomes(session, deltadur)
    ELSE UpdateOutcomes(session, deltadur)

\* What one transport.send_packets(client) can do: its Result and whether
\* the queued outbound messages went out to the socket.
FlushOutcomes ==
    {[result |-> Ok, sent |-> TRUE]}
    \cup {[result |-> r, sent |-> FALSE] : r \in TransportErrors}

\* session.client.update(deltadur): internal bookkeeping only.
client_update(client, deltadur) == client

\* session.transport.update(deltadur, &mut session.client), with outcome upd.
transport_update(session, deltadur, upd) ==
    [session EXCEPT
        !.client.status = upd.status,
        !.client.inbound = @ \o upd.arrivals,
        !.transport.handshake =
            IF session.client.status = "connecting" THEN @ + deltadur ELSE @]

\* Variant: the connection status is not consulted.
is_connected_unchecked(client) == TRUE

\* session.client.is_connected()
is_connected(client) == client.status = "connected"

\* session.client.receive_message(ReliableOrdered): the oldest queued message.
receive_message(client) ==
    IF client.inbound = <<>>
    THEN [message |-> None, client |-> client]
    ELSE [message |-> Some(Head(client.inbound)),
          client  |-> [client EXCEPT !.inbound = Tail(@)]]

\* session.client.send_message(ReliableOrdered, bytes): enqueue, no I/O.
send_message(client, bytes) ==
    [client EXCEPT !.outbound = Append(@, bytes)]

\* session.transport.send_packets(&mut session.client), with outcome flush.
send_packets(client, flush) ==
    IF flush.sent THEN [client EXCEPT !.outbound = <<>>] ELSE client

\* Variant: `if let` in place of `while let`: one message per tick.
drain_once(client, taken) ==
    LET r == receive_message(client)
    IN  IF r.message.some
        THEN [client |-> r.client, taken |-> Append(taken, r.message.value)]
        ELSE [client |-> r.client, taken |-> taken]

\* while let Some(message) = session.client.receive_message(..) { }
RECURSIVE drain(_, _)
drain(client, taken) ==
    LET r == receive_message(client)
    IN  IF r.message.some
        THEN drain(r.client, Append(taken, r.message.value))
        ELSE [client |-> r.client, taken |-> taken]

\* Variant: the Result of transport.update is dropped, not stored.
update_phase_ignoring(gs, deltadur, upd) ==
    IF gs.some
    THEN LET s1 == [gs.value EXCEPT !.client = client_update(@, deltadur)]
         IN  [gs    |-> Some(transport_update(s1, deltadur, upd)),
              calls |-> <<"client.update", "transport.update">>]
    ELSE [gs |-> gs, calls |-> <<>>]

\* Variant: the tick gives up the session when transport.update fails.
update_phase_dropping(gs, deltadur, upd) ==
    IF gs.some
    THEN LET s1 == [gs.value EXCEPT !.client = client_update(@, deltadur)]
             s2 == transport_update(s1, deltadur, upd)
         IN  [gs    |-> IF is_err(upd.result) THEN None
                        ELSE Some([s2 EXCEPT !.transport_error = upd.result]),
              calls |-> <<"client.update", "transport.update">>]
    ELSE [gs |-> gs, calls |-> <<>>]

\* Variant: the transport is advanced before the client.
update_phase_swapped(gs, deltadur, upd) ==
    IF gs.some
    THEN LET s1 == transport_update(gs.value, deltadur, upd)
             s2 == [s1 EXCEPT !.client = client_update(@, deltadur)]
         IN  [gs    |-> Some([s2 EXCEPT !.transport_error = upd.result]),
              calls |-> <<"transport.update", "client.update">>]
    ELSE [gs |-> gs, calls |-> <<>>]

\* Lines 63-67: advance client and transport, capturing the transport's Result.
update_phase(gs, deltadur, upd) ==
    IF gs.some
    THEN LET s1 == [gs.value EXCEPT !.client = client_update(@, deltadur)]
             s2 == transport_update(s1, deltadur, upd)
         IN  [gs    |-> Some([s2 EXCEPT !.transport_error = upd.result]),
              calls |-> <<"client.update", "transport.update">>]
    ELSE [gs |-> gs, calls |-> <<>>]

\* Variant: send_packets is inside the is_connected branch.
message_phase_flush_connected(gs, key_w, flush) ==
    IF gs.some
    THEN LET session   == gs.value
             connected == is_connected(session.client)
             d  == IF connected THEN drain(session.client, <<>>)
                   ELSE [client |-> session.client, taken |-> <<>>]
             c1 == IF connected /\ key_w THEN send_message(d.client, <<8>>)
                   ELSE d.client
             c2 == IF connected THEN send_packets(c1, flush) ELSE c1
         IN  [gs |-> Some([session EXCEPT
                              !.client = c2,
                              !.transport_error =
                                  IF connected THEN flush.result ELSE @]),
              calls |->
                  IF connected
                  THEN [i \in 1 .. Len(d.taken) + 1 |-> "receive_message"]
                       \o (IF key_w THEN <<"send_message">> ELSE <<>>)
                       \o <<"send_packets">>
                  ELSE <<>>,
              drained     |-> connected,
              at_drain    |-> IF connected THEN session.client.inbound ELSE <<>>,
              taken       |-> d.taken,
              after_drain |-> IF connected THEN d.client.inbound ELSE <<>>]
    ELSE [gs |-> gs, calls |-> <<>>, drained |-> FALSE,
          at_drain |-> <<>>, taken |-> <<>>, after_drain |-> <<>>]

\* Lines 76-96: drain inbound and maybe enqueue while connected, then flush.
message_phase(gs, key_w, flush) ==
    IF gs.some
    THEN LET session   == gs.value
             connected == is_connected(session.client)
             d  == IF connected THEN drain(session.client, <<>>)
                   ELSE [client |-> session.client, taken |-> <<>>]
             c1 == IF connected /\ key_w THEN send_message(d.client, <<8>>)
                   ELSE d.client
             c2 == send_packets(c1, flush)
         IN  [gs |-> Some([session EXCEPT !.client = c2,
                                          !.transport_error = flush.result]),
              calls |->
                  (IF connected
                   THEN [i \in 1 .. Len(d.taken) + 1 |-> "receive_message"]
                        \o (IF key_w THEN <<"send_message">> ELSE <<>>)
                   ELSE <<>>)
                  \o <<"send_packets">>,
              drained     |-> connected,
              at_drain    |-> IF connected THEN session.client.inbound ELSE <<>>,
              taken       |-> d.taken,
              after_drain |-> IF connected THEN d.client.inbound ELSE <<>>]
    ELSE [gs |-> gs, calls |-> <<>>, drained |-> FALSE,
          at_drain |-> <<>>, taken |-> <<>>, after_drain |-> <<>>]

\* Variant: the error is stored but no signal is emitted.
error_check_silent(gs) == [calls |-> <<>>, signals |-> <<>>]

\* Lines 69-74 and 98-103: emit lost_connection(reason) if the slot holds an error.
error_check(gs) ==
    IF transport_has_error(gs)
    THEN [calls |-> <<"emit_signal">>, signals |-> <<transport_error_message(gs)>>]
    ELSE [calls |-> <<>>, signals |-> <<>>]

\* Variant: the return of line 73 is missing, the tick carries on.
stops_after_update_never(gs) == FALSE

\* Lines 69 and 73: the tick ends here when transport.update left an error.
stops_after_update(gs) == transport_has_error(gs)

\* The body of physics_process: the Option<GameSession> it leaves, the calls
\* it made on the session and the host in order, and how it ended.
physics_process_do(gs, delta, upd, key_w, flush) ==
    LET quiet(outcome, exit) ==
            [gs |-> gs, outcome |-> outcome, exit |-> exit, calls |-> <<>>,
             signals |-> <<>>, drained |-> FALSE, at_drain |-> <<>>,
             taken |-> <<>>, after_drain |-> <<>>,
             update_result |-> "NotCalled", flush_result |-> "NotCalled"]
    IN  IF already_failed(gs) THEN quiet("returned", 58)
        ELSE
        LET deltadur == from_secs_f64(delta)
        IN  IF deltadur.panic THEN quiet("panic", 62)
            ELSE
            LET u  == update_phase(gs, deltadur.value, upd)
                e1 == error_check(u.gs)
            IN  IF stops_after_update(u.gs)
                THEN [quiet("returned", 73) EXCEPT
                         !.gs = u.gs, !.calls = u.calls \o e1.calls,
                         !.signals = e1.signals,
                         !.update_result = IF gs.some THEN upd.result ELSE @]
                ELSE
                LET m  == message_phase(u.gs, key_w, flush)
                    e2 == error_check(m.gs)
                IN  [gs          |-> m.gs,
                     outcome     |-> "returned",
                     exit        |-> IF transport_has_error(m.gs) THEN 102 ELSE 104,
                     calls       |-> u.calls \o m.calls \o e2.calls,
                     signals     |-> e2.signals,
                     drained     |-> m.drained,
                     at_drain    |-> m.at_drain,
                     taken       |-> m.taken,
                     after_drain |-> m.after_drain,
                     update_result |-> IF gs.some THEN upd.result ELSE "NotCalled",
                     flush_result  |-> IF gs.some THEN flush.result ELSE "NotCalled"]

\* Whether a tick gets as far as transport.update (the environment then matters).
gs_active(gs, delta) ==
    gs.some /\ ~already_failed(gs) /\ ~from_secs_f64(delta).panic

\* The ghost id of the session a signal belongs to (0: no session).
session_id(gs) == IF gs.some THEN gs.value.id ELSE 0

\* One tick of the host, against a peer of the given kind ("any", "silent").
\* Inputs the tick never reads on its path are not enumerated.
NoUpdate == [result |-> Ok, status |-> "connecting", arrivals |-> <<>>]
NoFlush == [result |-> Ok, sent |-> TRUE]

tick(delta, peer) ==
    \E upd \in (IF gs_active(game_session, delta)
                THEN PeerOutcomes(peer, game_session.value, delta)
                ELSE {NoUpdate}) :
    \E key_w \in (IF gs_active(game_session, delta) /\ ~is_err(upd.result)
                  THEN BOOLEAN ELSE {FALSE}) :
    \E flush \in (IF gs_active(game_session, delta) /\ ~is_err(upd.result)
                  THEN FlushOutcomes ELSE {NoFlush}) :
    \E r \in {physics_process_do(game_session, delta, upd, key_w, flush)} :
            /\ game_session' = r.gs
            /\ emitted' = emitted \o
                   [i \in 1 .. Len(r.signals) |->
                       [id |-> session_id(r.gs), reason |-> r.signals[i]]]
            /\ joins' = joins
            /\ last' = [op |-> "physics_process",
                        representable |-> ~from_secs_f64(delta).panic,
                        key_w |-> key_w,
                        outcome |-> r.outcome, exit |-> r.exit, calls |-> r.calls,
                        signals |-> r.signals, drained |-> r.drained,
                        at_drain |-> r.at_drain, taken |-> r.taken,
                        after_drain |-> r.after_drain,
                        update_result |-> r.update_result,
                        flush_result |-> r.flush_result]

physics_process(delta) == tick(delta, "any")

----------------------------------------------------------------------------
Init ==
    /\ game_session = None
    /\ emitted = <<>>
    /\ joins = 0
    /\ last = [op |-> "init", outcome |-> "returned", calls |-> <<>>, signals |-> <<>>]

\* Inputs join_session never reads on its path are not enumerated: the
\* system calls after a failed parse, the client id (line 132) before a
\* failure of lines 119-124.
JoinSession ==
    \E address \in Addresses :
    \E env \in (IF parse_unwrap(address).panic THEN {"none"} ELSE JoinEnvs) :
    \E client_id \in (IF parse_unwrap(address).panic
                          \/ env \in {"bind", "duration_since"}
                       THEN {1} ELSE ClientIds) :
        join_session(address, client_id, env)

PhysicsProcess ==
    \E delta \in Deltas : physics_process(delta)

Next == JoinSession \/ PhysicsProcess

Spec == Init /\ [][Next]_vars

\* The handshake-timeout scenario: one session is joined, its peer never
\* authenticates, and the host keeps calling physics_process with the
\* positive elapsed time of its fixed step.
TimeoutJoin == ~game_session.some /\ JoinSession

TimeoutTick == \E delta \in Deltas : tick(delta, "silent")

TimeoutTickElapsing ==
    \E delta \in {d \in Deltas : d > 0} : tick(delta, "silent")

TimeoutNext == TimeoutJoin \/ TimeoutTick

TimeoutSpec == Init /\ [][TimeoutNext]_vars /\ WF_vars(TimeoutTickElapsing)

----------------------------------------------------------------------------
\* Reading the observation of the last handler invocation.
IsTick == last.op = "physics_process"
IsJoin == last.op = "join_session"
HasError == transport_has_error(game_session)
EmissionsOf(id) == {i \in DOMAIN emitted : emitted[i].id = id}
ClientConnected ==
    game_session.some /\ game_session.value.client.status = "connected"

\* C1. Sticky error: a tick on a session whose error slot holds an error, for
\* any elapsed value, makes no call on client, transport or host, emits
\* nothing and leaves the session (error slot included) as it was.
C1_StickyError ==
    [][(HasError /\ IsTick')
         => /\ last'.calls = <<>>
            /\ last'.signals = <<>>
            /\ last'.outcome = "returned"
            /\ game_session' = game_session
            /\ emitted' = emitted]_vars

\* A tick with an unrepresentable elapsed value returned at line 58 on a
\* session that carries an error.
C1_Witness ==
    IsTick /\ HasError /\ last.exit = 58 /\ ~last.representable

\* C2. Exactly one lost_connection per failure: a step emits one signal, for
\* the held session, exactly when it is the tick in which that session's error
\* slot goes from Ok to an error, and no signal otherwise; no session ever has
\* more than one signal.
C2_FailureObserved ==
    /\ game_session.some /\ ~HasError
    /\ transport_has_error(game_session')
    /\ session_id(game_session') = session_id(game_session)

C2_ExactlyOneEmission ==
    /\ [](\A id \in 1 .. MaxJoins : Cardinality(EmissionsOf(id)) <= 1)
    /\ [][IF C2_FailureObserved
          THEN /\ IsTick'
               /\ Len(emitted') = Len(emitted) + 1
               /\ SubSeq(emitted', 1, Len(emitted)) = emitted
               /\ emitted'[Len(emitted')].id = session_id(game_session)
          ELSE emitted' = emitted]_vars

\* Both sessions of a run failed, one in transport.update and one in
\* send_packets, and two signals were emitted, one each.
C2_Witness ==
    /\ Len(emitted) = 2
    /\ emitted[1].id # emitted[2].id
    /\ HasError /\ IsTick /\ last.exit = 102

\* C3. A tick without a session, for any elapsed value, emits nothing, does
\* not panic and leaves the manager without a session.
C3_NoSessionTickHarmless ==
    (IsTick /\ joins = 0)
        => /\ last.outcome # "panic"
           /\ last.signals = <<>>
           /\ emitted = <<>>
           /\ ~game_session.some

\* C4. Rejoin replaces state: after a successful join_session the held
\* session is a new one with empty inbound and outbound queues and an empty
\* error slot, whatever the session held before carried.
C4_RejoinReplacesState ==
    (IsJoin /\ last.outcome = "ok")
        => /\ game_session.some
           /\ game_session.value.id = joins
           /\ game_session.value.client.inbound = <<>>
           /\ game_session.value.client.outbound = <<>>
           /\ game_session.value.transport_error = Ok
           /\ ~HasError

\* A successful join replaced a session that carried an error and a pending
\* outbound message.
C4_Witness ==
    /\ IsJoin /\ last.outcome = "ok"
    /\ last.prior.some /\ last.prior.error /\ last.prior.outbound > 0

\* C5. Setup-failure isolation: a join_session whose address does not parse,
\* whose bind fails or whose transport construction fails ends in a panic,
\* emits nothing and leaves the held session (or its absence) as it was.
C5_SetupFails ==
    IsJoin' /\ (parse_unwrap(last'.address).panic \/ last'.env # "none")

C5_SetupFailureIsolation ==
    [][C5_SetupFails
         => /\ last'.outcome = "panic"
            /\ game_session' = game_session
            /\ emitted' = emitted
            /\ joins' = joins]_vars

\* A join with an unparseable address failed while a healthy connected
\* session was held, which is still held.
C5_Witness ==
    /\ IsJoin /\ last.outcome = "panic" /\ last.cause = "parse"
    /\ last.prior.some /\ ~last.prior.error
    /\ game_session.some /\ game_session.value.client.status = "connected"

\* C6. join_session with a negative client id fails with a fatal setup error
\* and creates no session.
C6_InvalidClientIdFatal ==
    (IsJoin /\ last.client_id < 0)
        => /\ last.outcome = "panic"
           /\ joins = 0

\* C7. Ordered, complete drain: a tick that got past transport.update on a
\* connected client took out exactly the messages the inbound queue held, in
\* queue order, and left the queue empty when the drain ended.
C7_OrderedCompleteDrain ==
    (/\ IsTick /\ last.exit \in {102, 104}
     /\ game_session.some /\ game_session.value.client.status = "connected")
        => /\ last.drained
           /\ last.taken = last.at_drain
           /\ last.after_drain = <<>>
           /\ game_session.value.client.inbound = <<>>

\* A tick drained two different messages.
C7_Witness ==
    /\ IsTick /\ last.drained
    /\ Len(last.at_drain) = 2 /\ last.at_drain[1] # last.at_drain[2]
    /\ last.taken = last.at_drain

\* C8. Handshake timeout: with a peer that never authenticates, repeated
\* ticks of positive elapsed time lead to a lost_connection signal; there is
\* never a second one, and every tick after it is a no-op.
C8_HandshakeTimeout ==
    /\ game_session.some ~> (Len(emitted) = 1 /\ HasError)
    /\ [](Len(emitted) <= 1)
    /\ [][(Len(emitted) = 1 /\ IsTick')
            => /\ last'.calls = <<>>
               /\ game_session' = game_session
               /\ emitted' = emitted]_vars

\* The handshake outlasted the library's timeout with no I/O error, the
\* signal carrying the timeout was emitted, and a later tick did nothing.
C8_Witness ==
    /\ game_session.some
    /\ game_session.value.transport.handshake > HandshakeTimeout
    /\ game_session.value.client.status = "disconnected"
    /\ emitted = <<[id |-> 1, reason |-> to_string("Netcode")]>>
    /\ IsTick /\ last.exit = 58

\* C9. Session lifecycle: a tick leaves the manager holding the session it
\* held (or none, if it held none), also when it records an error, and the
\* held session changes only in a successful join_session.
C9_SameSession ==
    /\ game_session'.some = game_session.some
    /\ session_id(game_session') = session_id(game_session)
    /\ game_session.some =>
           game_session'.value.transport = [game_session.value.transport
               EXCEPT !.handshake = game_session'.value.transport.handshake]

C9_SessionLifecycle ==
    [][/\ IsTick' => C9_SameSession
       /\ ~C9_SameSession => (IsJoin' /\ last'.outcome = "ok")]_vars

\* A tick recorded a transport error and the second session is still held.
C9_Witness ==
    IsTick /\ HasError /\ last.exit = 73 /\ session_id(game_session) = 2

\* C10. A tick on an existing session never ends in a panic, for any elapsed
\* value and any outcome of transport.update and transport.send_packets.
C10_TickNeverPanics ==
    (IsTick /\ game_session.some) => last.outcome # "panic"

\* The calls of a tick's message phase: n receive_message calls, then
\* send_message if sent, then send_packets, then emit_signal if emitting.
MessageCalls(n, sent, emitting) ==
    [i \in 1 .. n |-> "receive_message"]
    \o (IF sent THEN <<"send_message">> ELSE <<>>)
    \o <<"send_packets">>
    \o (IF emitting THEN <<"emit_signal">> ELSE <<>>)

\* C11. Fixed step order: the calls of a tick are client.update, then
\* transport.update, then either the emission alone or the receive_message
\* calls (only on a connected client), the optional send_message, and
\* send_packets as the last call on the session; a tick that got past line
\* 62 on a session made these calls.
C11_FixedStepOrder ==
    IsTick =>
        /\ (game_session.some /\ last.exit \in {73, 102, 104}) => last.calls # <<>>
        /\ last.calls # <<>> =>
            /\ Len(last.calls) >= 3
            /\ last.calls[1] = "client.update"
            /\ last.calls[2] = "transport.update"
            /\ LET rest == SubSeq(last.calls, 3, Len(last.calls))
                   connected == ClientConnected
               IN  \/ last.exit = 73 /\ rest = <<"emit_signal">>
                   \/ /\ last.exit \in {102, 104}
                      /\ \E n \in 0 .. Len(rest), sent, emitting \in BOOLEAN :
                             /\ rest = MessageCalls(n, sent, emitting)
                             /\ (n > 0) = connected
                             /\ sent => connected

\* A tick made every kind of call: both updates, three receive_message
\* calls, send_message, send_packets and the emission.
C11_Witness ==
    /\ IsTick /\ last.exit = 102
    /\ last.calls = <<"client.update", "transport.update">>
                    \o MessageCalls(3, TRUE, TRUE)

\* C12. A receive-side error stops the tick: when transport.update returned
\* an error, the tick called neither receive_message nor send_message nor
\* send_packets, took no message out, and did nothing further but emit
\* lost_connection once, for the error transport.update returned.
C12_ReceiveErrorStopsTick ==
    (IsTick /\ last.update_result \in TransportErrors)
        => /\ last.calls = <<"client.update", "transport.update", "emit_signal">>
           /\ last.flush_result = "NotCalled"
           /\ ~last.drained /\ last.taken = <<>>
           /\ Len(last.signals) = 1
           /\ game_session.value.transport_error = last.update_result

\* transport.update failed on a connected client after feeding it two
\* messages, which are still queued.
C12_Witness ==
    /\ IsTick /\ last.update_result = "IO"
    /\ ClientConnected
    /\ Len(game_session.value.client.inbound) = 2

\* The number of calls of a kind among the calls of the last invocation.
CallCount(name) == Cardinality({i \in DOMAIN last.calls : last.calls[i] = name})

\* C13. Message processing is gated on the connection status: a tick calls
\* receive_message or send_message only on a client that is connected after
\* the updates; on any other client nothing is taken out or enqueued; a tick
\* enqueues at most one message, only when the trigger holds and only once
\* the drain has emptied the inbound queue.
C13_GatedOnConnection ==
    IsTick =>
        /\ (CallCount("receive_message") > 0 \/ CallCount("send_message") > 0)
               => ClientConnected
        /\ (game_session.some /\ ~ClientConnected)
               => (~last.drained /\ last.taken = <<>>)
        /\ CallCount("send_message") <= 1
        /\ CallCount("send_message") = 1
               => /\ last.key_w
                  /\ last.drained /\ last.after_drain = <<>>
                  /\ \A i, j \in DOMAIN last.calls :
                         (last.calls[i] = "receive_message"
                          /\ last.calls[j] = "send_message") => i < j
        /\ (last.drained /\ last.exit \in {102, 104})
               => (CallCount("send_message") = 1) = last.key_w

\* The trigger held in a tick whose client was still connecting: nothing was
\* received or enqueued, only the flush ran.
C13_Witness ==
    /\ IsTick /\ last.key_w /\ last.exit = 104
    /\ game_session.value.client.status = "connecting"
    /\ last.calls = <<"client.update", "transport.update", "send_packets">>

\* C14. Flush runs every healthy tick: a tick in which transport.update
\* succeeded called send_packets exactly once, connected or not, and the
\* error slot holds what send_packets returned.
C14_FlushEveryHealthyTick ==
    (IsTick /\ last.update_result = Ok)
        => /\ CallCount("send_packets") = 1
           /\ last.flush_result \in Results
           /\ game_session.value.transport_error = last.flush_result

\* send_packets ran, and failed, in a tick whose client was still connecting.
C14_Witness ==
    /\ IsTick /\ last.update_result = Ok /\ last.flush_result = "IO"
    /\ game_session.value.client.status = "connecting"
    /\ CallCount("send_packets") = 1

\* C15. Rejoin restores processing: the tick right after a successful
\* join_session that replaced a failed session runs client.update and
\* transport.update on the new session, a failure of the new session emits
\* its own signal, and a tick on a failed session stays inactive.
C15_RejoinRestoresProcessing ==
    [][/\ (IsJoin /\ last.outcome = "ok" /\ last.prior.error /\ IsTick')
            => /\ Len(last'.calls) >= 2
               /\ last'.calls[1] = "client.update"
               /\ last'.calls[2] = "transport.update"
               /\ session_id(game_session') = session_id(game_session)
               /\ transport_has_error(game_session')
                      => emitted' = Append(emitted,
                             [id     |-> session_id(game_session),
                              reason |-> last'.signals[1]])
       /\ (HasError /\ IsTick') => last'.calls = <<>>]_vars

\* C16. The event carries the current failure: a tick that emits
\* lost_connection emits it once, with the description of the error its
\* error slot holds, which is the error transport.update or send_packets
\* returned in that tick; no emitted reason is the empty string.
C16_EventCarriesFailure ==
    /\ \A i \in DOMAIN emitted :
           /\ emitted[i].reason # ""
           /\ \E e \in TransportErrors : emitted[i].reason = to_string(e)
    /\ (IsTick /\ last.signals # <<>>)
           => /\ Len(last.signals) = 1
              /\ HasError
              /\ last.signals[1] = to_string(game_session.value.transport_error)
              /\ game_session.value.transport_error =
                     (IF last.update_result \in TransportErrors
                      THEN last.update_result ELSE last.flush_result)
              /\ emitted[Len(emitted)] =
                     [id |-> session_id(game_session), reason |-> last.signals[1]]

\* A tick emitted the description of the I/O error send_packets returned.
C16_Witness ==
    /\ IsTick /\ last.flush_result = "IO"
    /\ last.signals = <<to_string("IO")>>
    /\ emitted[Len(emitted)].reason = "io error"

\* C17. No recorded error is masked: send_packets' result is written only in
\* a tick whose transport.update returned Ok, and the error slot of the held
\* session goes from an error to Ok only in a successful join_session.
C17_NoErrorMasked ==
    /\ []((IsTick /\ last.flush_result # "NotCalled") => last.update_result = Ok)
    /\ [][(HasError /\ ~transport_has_error(game_session'))
              => (IsJoin' /\ last'.outcome = "ok"
                  /\ session_id(game_session') # session_id(game_session))]_vars

\* A successful send_packets wrote Ok over an Ok slot in the second session,
\* after the first session's error had been recorded and signalled.
C17_Witness ==
    /\ IsTick /\ last.update_result = Ok /\ last.flush_result = Ok
    /\ ~HasError /\ session_id(game_session) = 2
    /\ Cardinality(EmissionsOf(1)) = 1

\* C18. The signals emitted never outnumber the successful join_session
\* calls, and the held session's error slot holds an error exactly when a
\* signal has been emitted for that session.
C18_EmissionsBoundedByJoins ==
    /\ Len(emitted) <= joins
    /\ HasError = (game_session.some /\ EmissionsOf(session_id(game_session)) # {})

\* Two joins, both sessions failed and signalled: as many signals as joins.
C18_Witness ==
    /\ joins = 2 /\ Len(emitted) = 2 /\ HasError
    /\ EmissionsOf(1) # {} /\ EmissionsOf(2) # {}
    /\ IsTick /\ last.exit = 58

\* C15, apart from elapsed values no Duration can hold (see C10).
C15_ForRepresentableElapsed ==
    [][/\ (IsJoin /\ last.outcome = "ok" /\ last.prior.error /\ IsTick'
           /\ last'.representable)
            => /\ Len(last'.calls) >= 2
               /\ last'.calls[1] = "client.update"
               /\ last'.calls[2] = "transport.update"
       /\ (HasError /\ IsTick') => last'.calls = <<>>]_vars

====
